---------------------------- MODULE Spec2Model ----------------------------
(***************************************************************************)
(* Model of src/src/classes/Twitter.py: the Twitter poster, made of the    *)
(* Post Store (get_posts, add_post), the Content Generator (generate_post) *)
(* and the Browser Poster (post).                                          *)
(*                                                                         *)
(* Each process of Procs is one invocation context holding one Twitter     *)
(* object (self).  The store file is shared by all of them.  A text is a   *)
(* sequence of one-character strings.                                      *)
(***************************************************************************)
EXTENDS Naturals, Sequences, FiniteSets

VARIABLES
    file,           \* the store file at get_twitter_cache_path()
    clock,          \* the time since the latest call from outside, in half seconds
    pc,             \* pc[p]: the statement process p executes next
    stack,          \* stack[p]: the return labels of the calls p is inside
    account_uuid,   \* self.account_uuid
    text,           \* post(): the argument text
    post_content,   \* post(): the local post_content
    now,            \* post(): the local now
    completion,     \* generate_post(): the local completion
    post,           \* add_post(): the argument post
    posts,          \* get_posts(): the value returned; add_post(): the local posts
    previous_json,  \* add_post(): the local previous_json
    loaded,         \* loaded[p]: the document p's latest add_post read at line 172
    composer,       \* browser: what p typed into the composer since it was called
    clicks,         \* browser: p's clicks on submit since it was called
    trace,          \* the steps of post() p made since it was called, in order
    attempts,       \* the backend calls p made since it was called
    answers,        \* the backend's last two answers to p's generate_post call
    calls,          \* calls made from outside so far
    store0,         \* store0[p]: the file as it was when p was last called
    added           \* added[a]: the posts of the completed add_post calls of a

storeVars   == <<file, post, posts, previous_json, loaded, added>>
postVars    == <<text, post_content, now>>
obsVars     == <<composer, clicks, trace, clock, attempts, answers, calls,
                 store0>>
vars        == <<file, clock, pc, stack, account_uuid, text, post_content, now,
                 completion, post, posts, previous_json, loaded, composer,
                 clicks,
                 trace, attempts, answers, calls, store0, added>>

---------------------------------------------------------------------------
(* Bounds of the model *)

\* calls from outside in a run: of any method, and of the store's methods
MaxCalls == 2
MaxStoreCalls == 3
\* the backend calls of one generate_post call that are counted
MaxAttempts == 2

Procs    == {"p1", "p2"}
Accounts == {"abc", "xyz"}

---------------------------------------------------------------------------
(* Texts *)

Rep(c, n) == [i \in 1..n |-> c]

\* Python None / a str
None      == [isNone |-> TRUE, val |-> <<>>]
Str(s)    == [isNone |-> FALSE, val |-> s]

\* line 236: the length from which a generated text is discarded
MaxPostLen == 260

\* the '*' characters removed and the '"' characters kept
SanitizeStarsOnly(s) == SelectSeq(s, LAMBDA c : c # "*")

\* line 230: re.sub(r"\*", "", completion).replace("\"", "")
Sanitize(s) == SelectSeq(s, LAMBDA c : c # "*" /\ c # "\"")

\* the bound tested with > in place of >=
TooLongOffByOne(s) == Len(s) > MaxPostLen

\* line 236: len(completion) >= 260
TooLong(s) == Len(s) >= MaxPostLen

\* line 128: now.strftime("%m/%d/%Y, %H:%M:%S"): the date and the time of day
\* to the whole second, here as the number of whole seconds of the clock
Strftime(t) == t \div 2

\* time.sleep(n) and WebDriverWait(bot, n), in half seconds
Seconds(n) == 2 * n

---------------------------------------------------------------------------
(* The store document: the JSON object of the store file.  A key of a JSON *)
(* object may be missing, so every key has a presence flag.                *)

AccountRecord(id, ps) ==
    [hasId |-> TRUE, id |-> id, hasPosts |-> TRUE, posts |-> ps]

\* {"posts": [], "accounts": []}
DefaultDoc ==
    [hasPosts |-> TRUE, posts |-> <<>>, hasAccounts |-> TRUE, accounts |-> <<>>]

\* The file: absent, empty (opened for writing and not yet written), garbled
\* (bytes that are no JSON document) or holding a document.
FileAbsent  == [kind |-> "absent",  doc |-> DefaultDoc]
FileEmpty   == [kind |-> "empty",   doc |-> DefaultDoc]
FileGarbled == [kind |-> "garbled", doc |-> DefaultDoc]
FileOf(d)   == [kind |-> "doc",     doc |-> d]

\* a search that never matches
ScanAccountsBlind(accounts, uuid, i) == [kind |-> "none", idx |-> 0]

\* for account in accounts: if account["id"] == uuid: ...
\* The index of the first record with that id ("found"), "none" when the loop
\* ends without one, "raise" when a record before it has no "id" (KeyError).
RECURSIVE ScanAccounts(_, _, _)
ScanAccounts(accounts, uuid, i) ==
    IF i > Len(accounts) THEN [kind |-> "none", idx |-> 0]
    ELSE IF ~accounts[i].hasId THEN [kind |-> "raise", idx |-> i]
    ELSE IF accounts[i].id = uuid THEN [kind |-> "found", idx |-> i]
    ELSE ScanAccounts(accounts, uuid, i + 1)

\* the posts of the first record, whatever its id
LookupPostsAny(parsed, uuid) ==
    IF parsed.hasAccounts /\ parsed.accounts # <<>>
    THEN [raised |-> FALSE, posts |-> parsed.accounts[1].posts]
    ELSE [raised |-> FALSE, posts |-> <<>>]

\* get_posts, lines 152-156, on the parsed document
LookupPosts(parsed, uuid) ==
    IF parsed.hasAccounts
    THEN LET s == ScanAccounts(parsed.accounts, uuid, 1) IN
         CASE s.kind = "found" ->
                [raised |-> FALSE,
                 posts  |-> IF parsed.accounts[s.idx].hasPosts
                            THEN parsed.accounts[s.idx].posts ELSE <<>>]
           [] s.kind = "raise" -> [raised |-> TRUE, posts |-> <<>>]
           [] OTHER -> [raised |-> FALSE, posts |-> <<>>]
    ELSE [raised |-> FALSE, posts |-> <<>>]

\* the post put in front of the posts of the record
UpdateDocPrepend(json, uuid, p) ==
    LET accounts == IF json.hasAccounts THEN json.accounts ELSE <<>>
        s        == ScanAccounts(accounts, uuid, 1)
    IN  CASE s.kind = "found" ->
               [raised |-> FALSE,
                doc |-> [json EXCEPT
                    !.accounts = [accounts EXCEPT
                        ![s.idx] = [@ EXCEPT !.posts = <<p>> \o @]]]]
          [] s.kind = "raise" -> [raised |-> TRUE, doc |-> json]
          [] OTHER ->
               [raised |-> FALSE,
                doc |-> [json EXCEPT
                    !.hasAccounts = TRUE,
                    !.accounts = Append(accounts, AccountRecord(uuid, <<p>>))]]

\* a new record created without the post
UpdateDocForgetsPost(json, uuid, p) ==
    LET accounts == IF json.hasAccounts THEN json.accounts ELSE <<>>
        s        == ScanAccounts(accounts, uuid, 1)
    IN  CASE s.kind = "found" ->
               [raised |-> FALSE,
                doc |-> [json EXCEPT
                    !.accounts = [accounts EXCEPT
                        ![s.idx] = [@ EXCEPT !.posts = Append(@, p)]]]]
          [] s.kind = "raise" -> [raised |-> TRUE, doc |-> json]
          [] OTHER ->
               [raised |-> FALSE,
                doc |-> [json EXCEPT
                    !.hasAccounts = TRUE,
                    !.accounts = Append(accounts, AccountRecord(uuid, <<>>))]]

\* the record that was found moved to the end of the accounts
UpdateDocMovesRecord(json, uuid, p) ==
    LET accounts == IF json.hasAccounts THEN json.accounts ELSE <<>>
        s        == ScanAccounts(accounts, uuid, 1)
    IN  CASE s.kind = "found" ->
               LET old == IF accounts[s.idx].hasPosts
                          THEN accounts[s.idx].posts ELSE <<>>
               IN [raised |-> FALSE,
                   doc |-> [json EXCEPT
                       !.hasAccounts = TRUE,
                       !.accounts =
                           SubSeq(accounts, 1, s.idx - 1) \o
                           SubSeq(accounts, s.idx + 1, Len(accounts)) \o
                           <<[accounts[s.idx] EXCEPT
                                 !.hasPosts = TRUE,
                                 !.posts = Append(old, p)]>>]]
          [] s.kind = "raise" -> [raised |-> TRUE, doc |-> json]
          [] OTHER ->
               [raised |-> FALSE,
                doc |-> [json EXCEPT
                    !.hasAccounts = TRUE,
                    !.accounts = Append(accounts, AccountRecord(uuid, <<p>>))]]

\* add_post, lines 175-192, on the parsed document
UpdateDoc(json, uuid, p) ==
    LET accounts == IF json.hasAccounts THEN json.accounts ELSE <<>>
        s        == ScanAccounts(accounts, uuid, 1)
    IN  CASE s.kind = "found" ->
               LET old == IF accounts[s.idx].hasPosts
                          THEN accounts[s.idx].posts ELSE <<>>
               IN [raised |-> FALSE,
                   doc |-> [json EXCEPT
                       !.hasAccounts = TRUE,
                       !.accounts = [accounts EXCEPT
                           ![s.idx] = [@ EXCEPT !.hasPosts = TRUE,
                                                !.posts = Append(old, p)]]]]
          [] s.kind = "raise" -> [raised |-> TRUE, doc |-> json]
          [] OTHER ->
               [raised |-> FALSE,
                doc |-> [json EXCEPT
                    !.hasAccounts = TRUE,
                    !.accounts = Append(accounts, AccountRecord(uuid, <<p>>))]]

\* What the file holds once a writer that opened it with mode "w" writes d
\* and closes: the writer writes at offset 0.  On the empty file that is d;
\* over bytes another writer put there since the open, it is d or, when those
\* bytes are longer than d, d followed by their tail.
Written(f, d) ==
    IF f.kind = "empty" THEN {FileOf(d)} ELSE {FileOf(d), FileGarbled}

---------------------------------------------------------------------------
(* Values the callers pass in *)

Post(content, date) == [content |-> content, date |-> date]

\* the posts handed to add_post when it is called directly
P1 == Post(<<"P", "1">>, 1)
P2 == Post(<<"P", "2">>, 2)
SamplePosts == {P1, P2}

Hey      == <<"H", "e", "y", "*">>
Wide260  == Rep("x", 260)

\* the argument of post(): nothing, or a text
Texts == {None, Str(Hey), Str(Wide260)}

Hi       == <<"\"", "H", "i", "*", "\"">>
Over260  == Rep("a", 260)
Long300  == Rep("b", 300)
Raw261   == <<"*">> \o Rep("c", 259) \o <<"\"">>

\* what g4f.ChatCompletion.create can answer: no result, or a text
BackendResponses ==
    {None, Str(Hi), Str(Over260), Str(Long300), Str(Raw261)}

\* what bot.get("https://x.com") can take to load, in half seconds
LoadTimes == {0, 1}

---------------------------------------------------------------------------
(* Control.  A local variable has a value while its call runs; outside the *)
(* call it holds the value below.                                          *)

NoPost == Post(<<>>, 0)

Init ==
    /\ file \in {FileAbsent, FileOf(DefaultDoc)}
    /\ clock = 0
    /\ pc = [p \in Procs |-> "idle"]
    /\ stack = [p \in Procs |-> <<>>]
    /\ account_uuid \in [Procs -> Accounts]
    /\ text = [p \in Procs |-> None]
    /\ post_content = [p \in Procs |-> <<>>]
    /\ now = [p \in Procs |-> 0]
    /\ completion = [p \in Procs |-> None]
    /\ post = [p \in Procs |-> NoPost]
    /\ posts = [p \in Procs |-> <<>>]
    /\ previous_json = [p \in Procs |-> DefaultDoc]
    /\ loaded = [p \in Procs |-> DefaultDoc]
    /\ composer = [p \in Procs |-> <<>>]
    /\ clicks = [p \in Procs |-> 0]
    /\ trace = [p \in Procs |-> <<>>]
    /\ attempts = [p \in Procs |-> 0]
    /\ answers = [p \in Procs |-> <<>>]
    /\ calls = 0
    /\ store0 = [p \in Procs |-> file]
    /\ added = [a \in Accounts |-> <<>>]

\* Documents a store file can hold that the class did not write: records
\* without "posts" or without "id", no "accounts" key, no top-level "posts"
\* key or one that holds posts, two records of one account.
NoPostsRecord(id) == [hasId |-> TRUE, id |-> id, hasPosts |-> FALSE, posts |-> <<>>]
NoIdRecord(ps)    == [hasId |-> FALSE, id |-> "", hasPosts |-> TRUE, posts |-> ps]

LegacyDoc ==
    [hasPosts |-> TRUE, posts |-> <<P2>>, hasAccounts |-> TRUE,
     accounts |-> <<AccountRecord("xyz", <<P1>>), AccountRecord("abc", <<P2>>)>>]
NoAccountsDoc ==
    [hasPosts |-> TRUE, posts |-> <<P1>>, hasAccounts |-> FALSE, accounts |-> <<>>]
NoPostsDoc ==
    [hasPosts |-> FALSE, posts |-> <<>>, hasAccounts |-> TRUE,
     accounts |-> <<NoPostsRecord("abc"), AccountRecord("xyz", <<P1>>)>>]
NoIdDoc ==
    [hasPosts |-> TRUE, posts |-> <<>>, hasAccounts |-> TRUE,
     accounts |-> <<AccountRecord("abc", <<P1>>), NoIdRecord(<<P2>>)>>]
TwiceDoc ==
    [hasPosts |-> TRUE, posts |-> <<>>, hasAccounts |-> TRUE,
     accounts |-> <<AccountRecord("abc", <<P1>>), AccountRecord("xyz", <<>>),
                    AccountRecord("abc", <<P2>>)>>]

StoredDocs == {DefaultDoc, LegacyDoc, NoAccountsDoc, NoPostsDoc, NoIdDoc, TwiceDoc}

\* the state after construction, over any store file
InitAny ==
    /\ file \in {FileAbsent} \cup {FileOf(d) : d \in StoredDocs}
    /\ clock = 0
    /\ pc = [p \in Procs |-> "idle"]
    /\ stack = [p \in Procs |-> <<>>]
    /\ account_uuid \in [Procs -> Accounts]
    /\ text = [p \in Procs |-> None]
    /\ post_content = [p \in Procs |-> <<>>]
    /\ now = [p \in Procs |-> 0]
    /\ completion = [p \in Procs |-> None]
    /\ post = [p \in Procs |-> NoPost]
    /\ posts = [p \in Procs |-> <<>>]
    /\ previous_json = [p \in Procs |-> DefaultDoc]
    /\ loaded = [p \in Procs |-> DefaultDoc]
    /\ composer = [p \in Procs |-> <<>>]
    /\ clicks = [p \in Procs |-> 0]
    /\ trace = [p \in Procs |-> <<>>]
    /\ attempts = [p \in Procs |-> 0]
    /\ answers = [p \in Procs |-> <<>>]
    /\ calls = 0
    /\ store0 = [p \in Procs |-> file]
    /\ added = [a \in Accounts |-> <<>>]

\* a caller outside the class calls a method of p's object: what is observed
\* of the call starts afresh
Enter(p) ==
    /\ pc[p] = "idle"
    /\ calls' = calls + 1
    /\ store0' = [store0 EXCEPT ![p] = file]
    /\ clock' = 0
    /\ composer' = [composer EXCEPT ![p] = <<>>]
    /\ clicks' = [clicks EXCEPT ![p] = 0]
    /\ trace' = [trace EXCEPT ![p] = <<>>]
    /\ attempts' = [attempts EXCEPT ![p] = 0]
    /\ UNCHANGED <<account_uuid, answers, added>>

\* p calls a method: control goes to label first, and to label back on return
Call(p, first, back) ==
    /\ pc' = [pc EXCEPT ![p] = first]
    /\ stack' = [stack EXCEPT ![p] = <<back>> \o @]

Goto(p, label) ==
    /\ pc' = [pc EXCEPT ![p] = label]
    /\ UNCHANGED stack

Return(p) ==
    /\ pc' = [pc EXCEPT ![p] = Head(stack[p])]
    /\ stack' = [stack EXCEPT ![p] = Tail(@)]

\* an exception nothing catches: the process ends with a traceback
Raise(p) ==
    /\ pc' = [pc EXCEPT ![p] = "raised"]
    /\ stack' = [stack EXCEPT ![p] = <<>>]

\* sys.exit(1)
Exit(p) ==
    /\ pc' = [pc EXCEPT ![p] = "exited"]
    /\ stack' = [stack EXCEPT ![p] = <<>>]

Log(p, event) == trace' = [trace EXCEPT ![p] = Append(@, event)]

---------------------------------------------------------------------------
(* Post Store: get_posts, lines 133-156 *)

\* a caller outside the class calls get_posts()
CallGetPosts(p) ==
    /\ Enter(p)
    /\ Call(p, "gp_exists", "idle")
    /\ UNCHANGED <<file, post, posts, previous_json, loaded, postVars, completion>>

\* line 140: if not os.path.exists(...)
GetPostsExists(p) ==
    /\ pc[p] = "gp_exists"
    /\ Goto(p, IF file.kind = "absent" THEN "gp_create" ELSE "gp_load")
    /\ UNCHANGED <<account_uuid, storeVars, postVars, completion, obsVars>>

\* line 142: open(..., 'w') creates the file, or empties the one that has
\* appeared since line 140
GetPostsCreate(p) ==
    /\ pc[p] = "gp_create"
    /\ file' = FileEmpty
    /\ Goto(p, "gp_dump")
    /\ UNCHANGED <<account_uuid, post, posts, previous_json, loaded, added, postVars,
                   completion, obsVars>>

\* lines 143-146: json.dump of the default document, and the close
GetPostsDump(p) ==
    /\ pc[p] = "gp_dump"
    /\ file' \in Written(file, DefaultDoc)
    /\ Goto(p, "gp_load")
    /\ UNCHANGED <<account_uuid, post, posts, previous_json, loaded, added, postVars,
                   completion, obsVars>>

\* lines 148-155: open, json.load and the search
GetPostsLoad(p) ==
    /\ pc[p] = "gp_load"
    /\ IF file.kind = "doc"
       THEN LET r == LookupPosts(file.doc, account_uuid[p]) IN
            IF r.raised
            THEN Raise(p) /\ UNCHANGED posts        \* KeyError
            ELSE /\ Goto(p, "gp_return")
                 /\ posts' = [posts EXCEPT ![p] = r.posts]
       ELSE Raise(p) /\ UNCHANGED posts             \* json.JSONDecodeError
    /\ UNCHANGED <<account_uuid, file, post, previous_json, loaded, added, postVars,
                   completion, obsVars>>

\* lines 155-156: return; add_post keeps the value in its local posts
GetPostsReturn(p) ==
    /\ pc[p] = "gp_return"
    /\ Return(p)
    /\ posts' = [posts EXCEPT ![p] = IF Head(stack[p]) = "idle" THEN <<>> ELSE @]
    /\ UNCHANGED <<account_uuid, file, post, previous_json, loaded, added, postVars,
                   completion, obsVars>>

---------------------------------------------------------------------------
(* Post Store: add_post, lines 158-196 *)

\* a caller outside the class calls add_post(q); line 168 calls get_posts
CallAddPost(p, q) ==
    /\ Enter(p)
    /\ post' = [post EXCEPT ![p] = q]
    /\ pc' = [pc EXCEPT ![p] = "gp_exists"]
    /\ stack' = [stack EXCEPT ![p] = <<"ap_read", "idle">>]
    /\ UNCHANGED <<file, posts, previous_json, loaded, postVars, completion>>

\* line 169: posts.append(post); lines 171-172: open, read, json.loads
AddPostRead(p) ==
    /\ pc[p] = "ap_read"
    /\ posts' = [posts EXCEPT ![p] = Append(@, post[p])]
    /\ IF file.kind = "doc"
       THEN /\ previous_json' = [previous_json EXCEPT ![p] = file.doc]
            /\ loaded' = [loaded EXCEPT ![p] = file.doc]
            /\ Goto(p, "ap_update")
       ELSE /\ Raise(p)                             \* json.JSONDecodeError
            /\ UNCHANGED <<previous_json, loaded>>
    /\ UNCHANGED <<account_uuid, file, post, added, postVars, completion,
                   obsVars>>

\* lines 175-192: the record of this account is extended, or created
AddPostUpdate(p) ==
    /\ pc[p] = "ap_update"
    /\ LET u == UpdateDoc(previous_json[p], account_uuid[p], post[p]) IN
       IF u.raised
       THEN Raise(p) /\ UNCHANGED previous_json     \* KeyError
       ELSE /\ Goto(p, "ap_open")
            /\ previous_json' = [previous_json EXCEPT ![p] = u.doc]
    /\ UNCHANGED <<account_uuid, file, post, posts, loaded, added, postVars,
                   completion, obsVars>>

\* line 195: open(..., "w") empties the file
AddPostOpen(p) ==
    /\ pc[p] = "ap_open"
    /\ file' = FileEmpty
    /\ Goto(p, "ap_write")
    /\ UNCHANGED <<account_uuid, post, posts, previous_json, loaded, added, postVars,
                   completion, obsVars>>

\* line 196: the write of the whole document, and the close; add_post returns
AddPostWrite(p) ==
    /\ pc[p] = "ap_write"
    /\ file' \in Written(file, previous_json[p])
    /\ added' = [added EXCEPT ![account_uuid[p]] = Append(@, post[p])]
    /\ Return(p)
    /\ post' = [post EXCEPT ![p] = NoPost]
    /\ posts' = [posts EXCEPT ![p] = <<>>]
    /\ previous_json' = [previous_json EXCEPT ![p] = DefaultDoc]
    /\ UNCHANGED <<account_uuid, loaded, postVars, completion, obsVars>>

StoreStep(p) ==
    \/ GetPostsExists(p)
    \/ GetPostsCreate(p)
    \/ GetPostsDump(p)
    \/ GetPostsLoad(p)
    \/ GetPostsReturn(p)
    \/ AddPostRead(p)
    \/ AddPostUpdate(p)
    \/ AddPostOpen(p)
    \/ AddPostWrite(p)

---------------------------------------------------------------------------
(* Content Generator: generate_post, lines 198-239 *)

\* a caller outside the class calls generate_post()
CallGeneratePost(p) ==
    /\ Enter(p)
    /\ Call(p, "gen_create", "idle")
    /\ UNCHANGED <<file, post, posts, previous_json, loaded, postVars, completion>>

\* the answer r after the answers as: the one before it is kept, the older
\* ones are dropped
Answered(as, r) == IF as = <<>> THEN <<r>> ELSE <<as[Len(as)], r>>

\* lines 207-220: the backend is asked and answers r.  attempts counts the
\* backend calls, up to MaxAttempts.
GenerateCreate(p) ==
    /\ pc[p] = "gen_create"
    /\ \E r \in BackendResponses :
           /\ completion' = [completion EXCEPT ![p] = r]
           /\ answers' = [answers EXCEPT ![p] = Answered(@, r)]
    /\ attempts' = [attempts EXCEPT
                       ![p] = IF @ < MaxAttempts THEN @ + 1 ELSE @]
    /\ Goto(p, "gen_none")
    /\ UNCHANGED <<account_uuid, storeVars, postVars, composer, clicks, trace,
                   clock, calls, store0>>

\* no result taken for an empty text: no exit
GenerateNoneGoesOn(p) ==
    /\ pc[p] = "gen_none"
    /\ Goto(p, "gen_clean")
    /\ UNCHANGED <<account_uuid, storeVars, postVars, completion, obsVars>>

\* lines 225-227: if completion is None: error(...); sys.exit(1)
GenerateNone(p) ==
    /\ pc[p] = "gen_none"
    /\ IF completion[p].isNone
       THEN Exit(p) /\ answers' = [answers EXCEPT ![p] = <<>>]
       ELSE Goto(p, "gen_clean") /\ UNCHANGED answers
    /\ UNCHANGED <<account_uuid, storeVars, postVars, completion, composer,
                   clicks, trace, clock, attempts, calls, store0>>

\* line 230: the text is cleaned
GenerateClean(p) ==
    /\ pc[p] = "gen_clean"
    /\ completion' = [completion EXCEPT ![p] = Str(Sanitize(@.val))]
    /\ Goto(p, "gen_length")
    /\ UNCHANGED <<account_uuid, storeVars, postVars, obsVars>>

\* every text discarded, the short ones too
GenerateLengthDiscardsAll(p) ==
    /\ pc[p] = "gen_length"
    /\ Goto(p, "gen_create")
    /\ UNCHANGED <<account_uuid, storeVars, postVars, completion, obsVars>>

\* lines 236-237: if len(completion) >= 260: return self.generate_post().
\* The caller gets the inner call's value as it is, so the inner call is
\* modelled as a jump back to the first line; the depth of the Python stack
\* is not part of the state.
GenerateLength(p) ==
    /\ pc[p] = "gen_length"
    /\ Goto(p, IF TooLong(completion[p].val) THEN "gen_create" ELSE "gen_return")
    /\ UNCHANGED <<account_uuid, storeVars, postVars, completion, obsVars>>

\* line 239: return completion; post keeps the value in post_content
GenerateReturn(p) ==
    /\ pc[p] = "gen_return"
    /\ Return(p)
    /\ completion' = [completion EXCEPT ![p] = None]
    /\ post_content' = [post_content EXCEPT
           ![p] = IF Head(stack[p]) = "idle" THEN @ ELSE completion[p].val]
    /\ answers' = [answers EXCEPT ![p] = <<>>]
    /\ UNCHANGED <<account_uuid, storeVars, text, now, composer, clicks, trace,
                   clock, attempts, calls, store0>>

GenStep(p) ==
    \/ GenerateCreate(p)
    \/ GenerateNone(p)
    \/ GenerateClean(p)
    \/ GenerateLength(p)
    \/ GenerateReturn(p)

---------------------------------------------------------------------------
(* Browser Poster: post, lines 66-131 *)

\* a caller outside the class calls post(t)
CallPost(p, t) ==
    /\ Enter(p)
    /\ text' = [text EXCEPT ![p] = t]
    /\ Call(p, "post_navigate", "idle")
    /\ UNCHANGED <<file, post, posts, previous_json, loaded, post_content,
                   now, completion>>

\* post returns: its locals are gone
PostReturn(p) ==
    /\ Return(p)
    /\ text' = [text EXCEPT ![p] = None]
    /\ post_content' = [post_content EXCEPT ![p] = <<>>]
    /\ now' = [now EXCEPT ![p] = 0]

\* lines 80-81: bot.get("https://x.com"); time.sleep(2)
PostNavigate(p) ==
    /\ pc[p] = "post_navigate"
    /\ \E load \in LoadTimes : clock' = clock + load + Seconds(2)
    /\ Log(p, "navigate")
    /\ Goto(p, "post_content")
    /\ UNCHANGED <<account_uuid, storeVars, postVars, completion, composer,
                   clicks, attempts, answers,
                   calls, store0>>

\* the text given to post() cleaned like a generated one
PostContentCleansText(p) ==
    /\ pc[p] = "post_content"
    /\ IF text[p].isNone
       THEN /\ Call(p, "gen_create", "post_now")
            /\ Log(p, "generate")
            /\ UNCHANGED post_content
       ELSE /\ Goto(p, "post_now")
            /\ post_content' = [post_content EXCEPT ![p] = Sanitize(text[p].val)]
            /\ UNCHANGED trace
    /\ UNCHANGED <<account_uuid, storeVars, text, now, completion, composer,
                   clicks, clock, attempts, answers,
                   calls, store0>>

\* line 84: post_content = self.generate_post() if text is None else text
PostContent(p) ==
    /\ pc[p] = "post_content"
    /\ IF text[p].isNone
       THEN /\ Call(p, "gen_create", "post_now")
            /\ Log(p, "generate")
            /\ UNCHANGED post_content
       ELSE /\ Goto(p, "post_now")
            /\ post_content' = [post_content EXCEPT ![p] = text[p].val]
            /\ UNCHANGED trace
    /\ UNCHANGED <<account_uuid, storeVars, text, now, completion, composer,
                   clicks, clock, attempts, answers,
                   calls, store0>>

\* line 85: now = datetime.now()
PostNow(p) ==
    /\ pc[p] = "post_now"
    /\ now' = [now EXCEPT ![p] = clock]
    /\ Log(p, "now")
    /\ Goto(p, "post_compose")
    /\ UNCHANGED <<account_uuid, storeVars, text, post_content, completion,
                   composer, clicks, clock, attempts, answers,
                   calls, store0>>

\* lines 92-99: the composer becomes visible in time and is clicked into
PostComposeVisible(p) ==
    /\ pc[p] = "post_compose"
    /\ Log(p, "compose")
    /\ Goto(p, "post_type")
    /\ UNCHANGED <<account_uuid, storeVars, postVars, completion, composer,
                   clicks, clock, attempts, answers,
                   calls, store0>>

\* the handler of line 104 without its return
PostComposeTimeoutFallsThrough(p) ==
    /\ pc[p] = "post_compose"
    /\ clock' = clock + Seconds(10)
    /\ Log(p, "compose_timeout")
    /\ Goto(p, "post_submit")
    /\ UNCHANGED <<account_uuid, storeVars, postVars, completion, composer,
                   clicks, attempts, answers,
                   calls, store0>>

\* lines 92-96 and 104-106: the wait of 10 seconds ends with a
\* TimeoutException; post prints and returns
PostComposeTimeout(p) ==
    /\ pc[p] = "post_compose"
    /\ clock' = clock + Seconds(10)
    /\ Log(p, "compose_timeout")
    /\ PostReturn(p)
    /\ UNCHANGED <<account_uuid, storeVars, completion, composer, clicks,
                   attempts, answers,
                   calls, store0>>

\* line 102: tweet_box.send_keys(post_content)
PostType(p) ==
    /\ pc[p] = "post_type"
    /\ composer' = [composer EXCEPT ![p] = @ \o post_content[p]]
    /\ Log(p, "type")
    /\ Goto(p, "post_submit")
    /\ UNCHANGED <<account_uuid, storeVars, postVars, completion, clicks,
                   clock, attempts, answers,
                   calls, store0>>

\* lines 110-115: the submit control becomes clickable in time and is clicked
PostSubmitClick(p) ==
    /\ pc[p] = "post_submit"
    /\ clicks' = [clicks EXCEPT ![p] = @ + 1]
    /\ Log(p, "click")
    /\ Goto(p, "post_settle")
    /\ UNCHANGED <<account_uuid, storeVars, postVars, completion, composer,
                   clock, attempts, answers,
                   calls, store0>>

\* the handler of line 116 without its return
PostSubmitTimeoutFallsThrough(p) ==
    /\ pc[p] = "post_submit"
    /\ clock' = clock + Seconds(10)
    /\ Log(p, "submit_timeout")
    /\ Goto(p, "post_settle")
    /\ UNCHANGED <<account_uuid, storeVars, postVars, completion, composer,
                   clicks, attempts, answers,
                   calls, store0>>

\* lines 110-114 and 116-118: the wait of 10 seconds ends with a
\* TimeoutException; post prints and returns
PostSubmitTimeout(p) ==
    /\ pc[p] = "post_submit"
    /\ clock' = clock + Seconds(10)
    /\ Log(p, "submit_timeout")
    /\ PostReturn(p)
    /\ UNCHANGED <<account_uuid, storeVars, completion, composer, clicks,
                   attempts, answers,
                   calls, store0>>

\* line 123: time.sleep(4)
PostSettle(p) ==
    /\ pc[p] = "post_settle"
    /\ clock' = clock + Seconds(4)
    /\ Log(p, "settle")
    /\ Goto(p, "post_record")
    /\ UNCHANGED <<account_uuid, storeVars, postVars, completion, composer,
                   clicks, attempts, answers,
                   calls, store0>>

\* the date taken from the clock when the post is recorded
PostRecordReadsClock(p) ==
    /\ pc[p] = "post_record"
    /\ post' = [post EXCEPT ![p] = Post(post_content[p], Strftime(clock))]
    /\ Log(p, "add_post")
    /\ pc' = [pc EXCEPT ![p] = "gp_exists"]
    /\ stack' = [stack EXCEPT ![p] = <<"ap_read", "post_success">> \o @]
    /\ UNCHANGED <<account_uuid, file, posts, previous_json, loaded, added,
                   postVars, completion, composer, clicks, clock, attempts,
                   answers, calls, store0>>

\* lines 126-129: self.add_post({"content": ..., "date": ...}); line 168 of
\* add_post calls get_posts
PostRecord(p) ==
    /\ pc[p] = "post_record"
    /\ post' = [post EXCEPT ![p] = Post(post_content[p], Strftime(now[p]))]
    /\ Log(p, "add_post")
    /\ pc' = [pc EXCEPT ![p] = "gp_exists"]
    /\ stack' = [stack EXCEPT ![p] = <<"ap_read", "post_success">> \o @]
    /\ UNCHANGED <<account_uuid, file, posts, previous_json, loaded, added,
                   postVars, completion, composer, clicks, clock, attempts,
                   answers, calls, store0>>

\* line 131: success("Posted to Twitter successfully!"); post returns
PostSuccess(p) ==
    /\ pc[p] = "post_success"
    /\ Log(p, "success")
    /\ PostReturn(p)
    /\ UNCHANGED <<account_uuid, storeVars, completion, composer, clicks,
                   clock, attempts, answers,
                   calls, store0>>

PostStep(p) ==
    \/ PostNavigate(p)
    \/ PostContent(p)
    \/ PostNow(p)
    \/ PostComposeVisible(p)
    \/ PostComposeTimeout(p)
    \/ PostType(p)
    \/ PostSubmitClick(p)
    \/ PostSubmitTimeout(p)
    \/ PostSettle(p)
    \/ PostRecord(p)
    \/ PostSuccess(p)

---------------------------------------------------------------------------
(* One invocation at a time, as the poster is meant to be used: a call     *)
(* from outside is made only while no other process is inside a call.      *)

Resting(q) == pc[q] \in {"idle", "exited", "raised"}

Alone(p) == \A q \in Procs \ {p} : Resting(q)

Next ==
    \E p \in Procs :
        \/ \E t \in Texts : calls < MaxCalls /\ Alone(p) /\ CallPost(p, t)
        \/ calls < MaxCalls /\ Alone(p) /\ CallGeneratePost(p)
        \/ calls < MaxCalls /\ Alone(p) /\ CallGetPosts(p)
        \/ \E q \in SamplePosts :
               calls < MaxCalls /\ Alone(p) /\ CallAddPost(p, q)
        \/ PostStep(p)
        \/ GenStep(p)
        \/ StoreStep(p)

Spec == Init /\ [][Next]_vars

---------------------------------------------------------------------------
(* The Post Store alone, one call at a time *)

NextStore ==
    \E p \in Procs :
        \/ calls < MaxStoreCalls /\ Alone(p) /\ CallGetPosts(p)
        \/ \E q \in SamplePosts :
               calls < MaxStoreCalls /\ Alone(p) /\ CallAddPost(p, q)
        \/ StoreStep(p)

SpecStore == Init /\ [][NextStore]_vars

\* The Post Store called one call at a time, over any store file.
SpecAny == InitAny /\ [][NextStore]_vars

---------------------------------------------------------------------------
(* Concurrent invocations on the shared store file: the processes call     *)
(* get_posts and add_post at any time and their file accesses interleave.  *)

NextConc ==
    \E p \in Procs :
        \/ calls < MaxStoreCalls /\ CallGetPosts(p)
        \/ \E q \in SamplePosts : calls < MaxStoreCalls /\ CallAddPost(p, q)
        \/ StoreStep(p)

SpecConc == Init /\ [][NextConc]_vars

---------------------------------------------------------------------------
(* The Content Generator alone.  A process that can take a step of         *)
(* generate_post takes one: the interpreter runs the code on.  Nothing is  *)
(* assumed of what the backend answers.                                    *)

NextGen ==
    \E p \in Procs :
        \/ calls < MaxCalls /\ Alone(p) /\ CallGeneratePost(p)
        \/ GenStep(p)

SpecGen == Init /\ [][NextGen]_vars /\ \A p \in Procs : WF_vars(GenStep(p))

---------------------------------------------------------------------------
(* Properties *)

Last(s)  == s[Len(s)]
Range(s) == {s[i] : i \in 1..Len(s)}

\* the places of the records of account a in document d
RecordsOf(d, a) ==
    IF d.hasAccounts
    THEN {i \in 1..Len(d.accounts) : d.accounts[i].hasId /\ d.accounts[i].id = a}
    ELSE {}

\* the posts file f holds for account a
StoredPosts(f, a) ==
    IF f.kind = "doc" /\ RecordsOf(f.doc, a) # {}
    THEN LET i == CHOOSE i \in RecordsOf(f.doc, a) :
                      \A j \in RecordsOf(f.doc, a) : i <= j
         IN  IF f.doc.accounts[i].hasPosts THEN f.doc.accounts[i].posts ELSE <<>>
    ELSE <<>>

EmptySchema ==
    [hasPosts |-> TRUE, posts |-> <<>>, hasAccounts |-> TRUE, accounts |-> <<>>]

\* C1: with one call at a time from an absent or default-empty store, the
\* store holds for every account exactly the posts added for it, in the order
\* they were added, and get_posts returns exactly those: a later add_post
\* changes no earlier entry.
C1_AppendOnly ==
    /\ file.kind = "doc" => \A a \in Accounts : StoredPosts(file, a) = added[a]
    /\ \A p \in Procs :
           pc[p] = "gp_return" => posts[p] = added[account_uuid[p]]

\* get_posts is about to return P1, P2, added in that order
C1_Witness ==
    \E p \in Procs : pc[p] = "gp_return" /\ posts[p] = <<P1, P2>>

\* C2: with one call at a time from an absent or default-empty store, the
\* document never holds two records of one account id; an add_post whose
\* account had no record (or no file) leaves the records there were plus one
\* record holding just its post, and an add_post whose account had a record
\* leaves the number of records as it was.
C2_OneRecordPerAccount ==
    /\ [](file.kind = "doc" =>
             \A a \in Accounts : Cardinality(RecordsOf(file.doc, a)) <= 1)
    /\ [][\A p \in Procs :
             (pc[p] = "ap_write" /\ pc'[p] # "ap_write") =>
                 LET before == store0[p].doc.accounts
                     a      == account_uuid[p]
                 IN  /\ file'.kind = "doc"
                     /\ IF RecordsOf(store0[p].doc, a) = {}
                        THEN file'.doc.accounts =
                                 Append(before, AccountRecord(a, <<post[p]>>))
                        ELSE Len(file'.doc.accounts) = Len(before)]_vars

\* two records, one of them with two posts: one add_post made each record, and
\* one found its record there
C2_Witness ==
    /\ file.kind = "doc"
    /\ Len(file.doc.accounts) = 2
    /\ \E i \in 1..2 : Len(file.doc.accounts[i].posts) = 2

\* C3: when a wait of post() times out, post() returns to its caller, the
\* file is as it was when post() was called, add_post was not called and
\* success not reported, and submit was not clicked; after the composer's
\* timeout nothing was typed.
C3_TimeoutAborts ==
    [][\A p \in Procs :
          (/\ trace'[p] # trace[p]
           /\ trace'[p] # <<>>
           /\ Last(trace'[p]) \in {"compose_timeout", "submit_timeout"}) =>
              /\ pc'[p] = "idle"
              /\ file' = store0[p]
              /\ "add_post" \notin Range(trace'[p])
              /\ "success" \notin Range(trace'[p])
              /\ "click" \notin Range(trace'[p])
              /\ clicks'[p] = 0
              /\ Last(trace'[p]) = "compose_timeout" =>
                     ("type" \notin Range(trace'[p]) /\ composer'[p] = <<>>)]_vars

\* one post() ended by the composer's timeout, one by the submit control's
\* after its text was typed
C3_Witness ==
    \E p, q \in Procs :
        /\ pc[p] = "idle" /\ trace[p] # <<>>
        /\ Last(trace[p]) = "compose_timeout"
        /\ pc[q] = "idle" /\ trace[q] # <<>>
        /\ Last(trace[q]) = "submit_timeout"
        /\ composer[q] # <<>>

\* the steps of a post() call that runs to its end, with the generator or
\* without
Steps(gen) ==
    <<"navigate">> \o (IF gen THEN <<"generate">> ELSE <<>>) \o
    <<"now", "compose", "type", "click", "settle", "add_post", "success">>

NowAt(gen) == IF gen THEN 3 ELSE 2

IsPrefix(s, t) == Len(s) <= Len(t) /\ s = SubSeq(t, 1, Len(s))

InOrder(t) ==
    \E gen \in BOOLEAN :
        \/ IsPrefix(t, Steps(gen))
        \/ t = SubSeq(Steps(gen), 1, NowAt(gen)) \o <<"compose_timeout">>
        \/ t = SubSeq(Steps(gen), 1, NowAt(gen) + 2) \o <<"submit_timeout">>

\* C4: the steps of a post() call come in the order navigate, (generate,)
\* compose, type, click, settle, add_post, success, each at most once and
\* none without the ones before it; submit is clicked at most once; when
\* success is reported the store holds for the account the posts it held at
\* the call plus one Post, whose content is the text typed into the composer;
\* a post() call that returns without success leaves the file as it was.
C4_PostStepsInOrder ==
    /\ [](\A p \in Procs :
             /\ InOrder(trace[p])
             /\ clicks[p] = IF "click" \in Range(trace[p]) THEN 1 ELSE 0)
    /\ [][\A p \in Procs :
             /\ trace'[p] = Append(trace[p], "success") =>
                    LET old == StoredPosts(store0[p], account_uuid[p])
                        new == StoredPosts(file', account_uuid[p])
                    IN  /\ file' = file
                        /\ Len(new) = Len(old) + 1
                        /\ SubSeq(new, 1, Len(old)) = old
                        /\ Last(new).content = composer[p]
             /\ (/\ pc[p] # "idle" /\ pc'[p] = "idle"
                 /\ trace'[p] # <<>>
                 /\ Last(trace'[p]) # "success") => file' = store0[p]]_vars

\* a post() call with a generated text has run to its end
C4_Witness ==
    \E p \in Procs :
        /\ pc[p] = "idle"
        /\ trace[p] = Steps(TRUE)
        /\ composer[p] # <<>>
        /\ StoredPosts(file, account_uuid[p]) # <<>>

\* C5: a text generate_post returns is shorter than 260 characters.
C5_ReturnedTextShort ==
    \A p \in Procs :
        /\ pc[p] = "gen_return" => Len(completion[p].val) < 260
        /\ (pc[p] = "post_now" /\ text[p].isNone) => Len(post_content[p]) < 260

\* a text of 259 characters is about to be returned, after a discarded one
C5_Witness ==
    \E p \in Procs :
        /\ pc[p] = "gen_return"
        /\ Len(completion[p].val) = 259
        /\ attempts[p] = 2

\* C6: a generate_post call ends, whatever the backend answers.
C6_GenerateTerminates ==
    \A p \in Procs : (pc[p] = "gen_create") ~> (pc[p] \in {"idle", "exited"})

\* C7: when the backend gives no result, on whichever attempt, the process
\* exits and stays exited, with the file as it was at the call; a process
\* that has exited has typed nothing, not clicked submit and not called
\* add_post.
C7_NoneIsFatal ==
    /\ [][\A p \in Procs :
             /\ (/\ pc[p] = "gen_none" /\ completion[p].isNone
                 /\ pc'[p] # "gen_none") =>
                    (pc'[p] = "exited" /\ file' = store0[p])
             /\ pc[p] = "exited" => pc'[p] = "exited"]_vars
    /\ [](\A p \in Procs :
             pc[p] = "exited" =>
                 /\ composer[p] = <<>>
                 /\ clicks[p] = 0
                 /\ Range(trace[p]) \cap {"type", "click", "add_post"} = {})

\* post() has exited on no result from the backend, after a discarded text
C7_Witness ==
    \E p \in Procs :
        /\ pc[p] = "exited"
        /\ attempts[p] = 2
        /\ trace[p] = <<"navigate", "generate">>

\* C8: get_posts returns no posts for an account that has no record; when the
\* file was absent at the call, get_posts reads the file once it holds the
\* default document, and no record.
C8_AbsentAccountEmpty ==
    \A p \in Procs :
        pc[p] = "gp_return" =>
            /\ file.kind = "doc"
            /\ RecordsOf(file.doc, account_uuid[p]) = {} => posts[p] = <<>>
            /\ store0[p].kind = "absent" => file = FileOf(EmptySchema)

\* get_posts is about to return for an account without a record, from a file
\* that an earlier call created and that holds another account's record
C8_Witness ==
    \E p, q \in Procs :
        /\ pc[p] = "gp_return"
        /\ posts[p] = <<>>
        /\ RecordsOf(file.doc, account_uuid[p]) = {}
        /\ Len(file.doc.accounts) > 0
        /\ store0[q].kind = "absent"

\* C9: when two add_post calls of one account have both read the same
\* document and both have returned, the document written last holds for the
\* account the posts that were read plus the last writer's post alone.
C9_LastWriterWins ==
    \A a \in Accounts :
        (/\ calls = 2
         /\ \A p \in Procs : pc[p] = "idle" /\ account_uuid[p] = a
         /\ Len(added[a]) = 2
         /\ \A p, q \in Procs : loaded[p] = loaded[q]
         /\ file.kind = "doc") =>
            \A p \in Procs :
                StoredPosts(file, a) =
                    Append(StoredPosts(FileOf(loaded[p]), a), added[a][2])

\* both calls have returned without an error, and of the two posts the store
\* holds the second writer's alone
C9_Witness ==
    \E a \in Accounts :
        /\ calls = 2
        /\ \A p \in Procs : pc[p] = "idle" /\ account_uuid[p] = a
        /\ Len(added[a]) = 2
        /\ added[a][1] # added[a][2]
        /\ \A p, q \in Procs : loaded[p] = loaded[q]
        /\ file.kind = "doc"
        /\ StoredPosts(file, a) = <<added[a][2]>>

\* C10: when two add_post calls of two different accounts have both
\* returned, the store holds the post of each.
C10_NoLostUpdate ==
    (/\ calls = 2
     /\ \A p \in Procs : pc[p] = "idle"
     /\ \A p, q \in Procs : p # q => account_uuid[p] # account_uuid[q]
     /\ \A a \in Accounts : Len(added[a]) = 1) =>
        /\ file.kind = "doc"
        /\ \A a \in Accounts : StoredPosts(file, a) = added[a]

\* the characters of s from place lo to place hi without the '*' and '"'
\* among them, the other characters in their order
RECURSIVE StripBetween(_, _, _)
StripBetween(s, lo, hi) ==
    IF lo > hi THEN <<>>
    ELSE IF lo = hi THEN (IF s[lo] \in {"*", "\""} THEN <<>> ELSE <<s[lo]>>)
    ELSE LET mid == (lo + hi) \div 2
         IN  StripBetween(s, lo, mid) \o StripBetween(s, mid + 1, hi)

Strip(s) == StripBetween(s, 1, Len(s))

\* the backend's answer that generate_post of p is working on
Raw(p) == Last(answers[p]).val

\* C11: the text generate_post tests and returns is the backend's last answer
\* without its '*' and '"' characters and with its other characters in their
\* order, so it holds neither character; the length is tested on that text:
\* an answer whose text without these characters is shorter than 260 is
\* returned, without another backend call, whatever the length of the answer.
C11_ReturnedTextSanitized ==
    /\ [](\A p \in Procs :
             pc[p] \in {"gen_length", "gen_return"} =>
                 /\ completion[p].val = Strip(Raw(p))
                 /\ Range(completion[p].val) \cap {"*", "\""} = {})
    /\ [][\A p \in Procs :
             /\ (/\ pc[p] = "gen_length" /\ pc'[p] # "gen_length"
                 /\ Len(Strip(Raw(p))) < MaxPostLen) =>
                    (pc'[p] = "gen_return" /\ answers'[p] = answers[p])
             /\ (pc[p] = "gen_return" /\ pc'[p] # "gen_return") =>
                    (pc'[p] = "idle" /\ completion[p].val = Strip(Raw(p)))]_vars

\* the first answer, of 261 characters, is about to be returned as its 259
\* characters other than '*' and '"'
C11_Witness ==
    \E p \in Procs :
        /\ pc[p] = "gen_return"
        /\ Len(answers[p]) = 1
        /\ Len(Raw(p)) >= MaxPostLen
        /\ Raw(p) # completion[p].val
        /\ Len(completion[p].val) < MaxPostLen

\* the answer is a text that is short enough without its '*' and '"'
Acceptable(r) == ~r.isNone /\ Len(Strip(r.val)) < MaxPostLen

\* the answer is a text that is too long without its '*' and '"'
Discarded(r) == ~r.isNone /\ Len(Strip(r.val)) >= MaxPostLen

\* C12: generate_post returns the first acceptable answer: while it runs,
\* every answer before the last was discarded as too long without its '*' and
\* '"', and the answer it returns is acceptable; the backend is called only
\* at the start of the call or at once after a discard, and it is the only
\* thing done after a discard; after an acceptable answer the call returns
\* without another backend call; and once the backend has answered with an
\* acceptable text or with None, the call ends.
C12_FirstAcceptableReturned ==
    /\ [](\A p \in Procs :
             /\ \A i \in 1..(Len(answers[p]) - 1) : Discarded(answers[p][i])
             /\ Len(answers[p]) <= attempts[p]
             /\ pc[p] = "gen_return" => Acceptable(Last(answers[p])))
    /\ [][\A p \in Procs :
             /\ (answers'[p] # answers[p] /\ answers'[p] # <<>>) =>
                    /\ pc[p] = "gen_create"
                    /\ answers[p] = <<>> \/ Discarded(Last(answers[p]))
                    /\ answers'[p] \in
                           {Answered(answers[p], r) : r \in BackendResponses}
             /\ (pc[p] = "gen_length" /\ pc'[p] # "gen_length") =>
                    /\ Discarded(Last(answers[p])) => pc'[p] = "gen_create"
                    /\ Acceptable(Last(answers[p])) => pc'[p] = "gen_return"
             /\ (pc[p] = "gen_create" /\ pc'[p] # "gen_create") =>
                    answers'[p] # <<>>
             /\ (pc[p] = "gen_return" /\ pc'[p] # "gen_return") =>
                    answers'[p] = <<>>]_vars
    /\ \A p \in Procs :
           (/\ pc[p] = "gen_none"
            /\ completion[p].isNone \/ Acceptable(completion[p])) ~>
               (pc[p] \in {"idle", "exited"})

\* the second answer is about to be returned, the first one was discarded
C12_Witness ==
    \E p \in Procs :
        /\ pc[p] = "gen_return"
        /\ Len(answers[p]) = 2
        /\ Discarded(answers[p][1])
        /\ completion[p].val = Strip(answers[p][2].val)
        /\ Len(completion[p].val) < MaxPostLen

\* the place of the first record of account a among accounts, 0 when it has
\* none
FirstOf(accounts, a) ==
    LET mine == {i \in 1..Len(accounts) : accounts[i].hasId /\ accounts[i].id = a}
    IN  IF mine = {} THEN 0 ELSE CHOOSE i \in mine : \A j \in mine : i <= j

\* C13: the document add_post writes differs from the one it read (the one
\* the file held at the call, when there was a file) in the record of its
\* account alone: the top-level posts field is as it was, there or not; the
\* other records, and the later records of the same account, are as they
\* were and in their places; the account's first record is in its place with
\* its id, or is a new record at the end when the account had none.
C13_OtherRecordsKept ==
    [][\A p \in Procs :
          (pc[p] = "ap_write" /\ pc'[p] # "ap_write") =>
              LET before == loaded[p]
                  old    == IF before.hasAccounts THEN before.accounts ELSE <<>>
                  a      == account_uuid[p]
                  k      == FirstOf(old, a)
                  new    == file'.doc.accounts
              IN  /\ store0[p].kind = "doc" => before = store0[p].doc
                  /\ file'.kind = "doc"
                  /\ file'.doc.hasPosts = before.hasPosts
                  /\ file'.doc.posts = before.posts
                  /\ Len(new) = Len(old) + (IF k = 0 THEN 1 ELSE 0)
                  /\ \A i \in 1..Len(old) : i # k => new[i] = old[i]
                  /\ LET mine == IF k = 0 THEN Len(new) ELSE k
                     IN  new[mine].hasId /\ new[mine].id = a]_vars

\* add_post has returned for the account of the second of two records, over
\* a document with posts at the top level: the record is still the second
\* and the first holds the other account's post
C13_Witness ==
    \E p \in Procs :
        /\ pc[p] = "idle"
        /\ added[account_uuid[p]] # <<>>
        /\ file.kind = "doc"
        /\ file.doc.posts # <<>>
        /\ Len(file.doc.accounts) = 2
        /\ file.doc.accounts[1].id # account_uuid[p]
        /\ file.doc.accounts[1].posts # <<>>
        /\ file.doc.accounts[2].id = account_uuid[p]
        /\ Last(file.doc.accounts[2].posts) = Last(added[account_uuid[p]])
        /\ Len(file.doc.accounts[2].posts) = 2

\* where post() is from line 85 on, the store calls of line 126 left out
AfterContent ==
    {"post_now", "post_compose", "post_type", "post_submit", "post_settle",
     "post_record", "post_success"}

InGenerator == {"gen_create", "gen_none", "gen_clean", "gen_length", "gen_return"}

\* C14: post(text) calls generate_post when text is None and only then.  With
\* a text, the backend is not called, post_content is the text as given, the
\* composer holds nothing or the text as given, and the Post handed to
\* add_post and the last Post of the account in the store at success hold
\* the text as given, '*' and 260 characters included.  Without a text,
\* line 85 is reached only after generate_post and a backend call.
C14_GeneratorOnlyWithoutText ==
    /\ [](\A p \in Procs :
             /\ ~text[p].isNone =>
                    /\ attempts[p] = 0 /\ answers[p] = <<>>
                    /\ "generate" \notin Range(trace[p])
                    /\ pc[p] \notin InGenerator
                    /\ composer[p] \in {<<>>, text[p].val}
                    /\ "type" \in Range(trace[p]) => composer[p] = text[p].val
                    /\ pc[p] \in AfterContent => post_content[p] = text[p].val
             /\ (text[p].isNone /\ pc[p] \in AfterContent) =>
                    ("generate" \in Range(trace[p]) /\ attempts[p] >= 1))
    /\ [][\A p \in Procs :
             /\ (pc[p] = "post_content" /\ pc'[p] # "post_content") =>
                    IF text[p].isNone
                    THEN pc'[p] = "gen_create"
                    ELSE pc'[p] = "post_now" /\ post_content'[p] = text[p].val
             /\ (~text[p].isNone /\ pc[p] = "post_record"
                                /\ pc'[p] # "post_record") =>
                    post'[p].content = text[p].val
             /\ (~text[p].isNone /\ trace'[p] = Append(trace[p], "success")) =>
                    Last(StoredPosts(file', account_uuid[p])).content =
                        text[p].val]_vars

\* two post() calls with a text have run to their ends without the generator:
\* one typed and stored 260 characters, one a text with a '*'
C14_Witness ==
    \E p, q \in Procs :
        /\ pc[p] = "idle" /\ pc[q] = "idle"
        /\ trace[p] = Steps(FALSE) /\ trace[q] = Steps(FALSE)
        /\ attempts[p] = 0 /\ attempts[q] = 0
        /\ composer[p] = Wide260 /\ composer[q] = Hey
        /\ \E a \in Accounts : Last(StoredPosts(file, a)).content = Wide260
        /\ \E a \in Accounts :
               Hey \in {ps.content : ps \in Range(StoredPosts(file, a))}

\* C15: get_posts raises no error and returns the empty sequence when the
\* document holds no record with the account's id (no accounts collection, or
\* records of other accounts or without an id) or when the account's record
\* has no posts field, and it leaves a file that was there as it was.
C15_MalformedGivesEmpty ==
    /\ [][\A p \in Procs :
             (/\ pc[p] = "gp_load" /\ pc'[p] # "gp_load"
              /\ file.kind = "doc"
              /\ LET accounts == IF file.doc.hasAccounts
                                 THEN file.doc.accounts ELSE <<>>
                     k        == FirstOf(accounts, account_uuid[p])
                 IN  k = 0 \/ ~accounts[k].hasPosts) =>
                 (pc'[p] = "gp_return" /\ posts'[p] = <<>>)]_vars
    /\ [](\A p \in Procs :
             (pc[p] = "gp_return" /\ store0[p].kind = "doc") => file = store0[p])

\* C16 as it is stated: the date of the Post that post() hands to add_post is
\* the time at the Record step.
C16_DateIsRecordTime ==
    [][\A p \in Procs :
          (pc[p] = "post_record" /\ pc'[p] # "post_record") =>
              post'[p].date = Strftime(clock)]_vars

\* C16, amended: the date of the Post is the clock value read at line 85,
\* before the composer is waited for, typed into, submit is clicked and the
\* settle delay; now is not assigned again, and the Record step formats it at
\* least the 4 seconds of the settle delay later, so the stored date is
\* earlier than the time at the Record step.
C16_DateReadBeforeCompose ==
    [][\A p \in Procs :
          /\ trace'[p] = Append(trace[p], "now") =>
                 /\ now'[p] = clock /\ clock' = clock
                 /\ Range(trace[p]) \cap
                        {"compose", "type", "click", "settle", "add_post"} = {}
          /\ (pc[p] \in {"post_compose", "post_type", "post_submit",
                          "post_settle", "post_record"}
              /\ pc'[p] # "idle") => now'[p] = now[p]
          /\ (pc[p] = "post_record" /\ pc'[p] # "post_record") =>
                 /\ post'[p].date = Strftime(now[p])
                 /\ clock >= now[p] + Seconds(4)
                 /\ post'[p].date < Strftime(clock)]_vars

\* post() has handed add_post a Post whose date is more than 4 seconds
\* before the time of the Record step
C16_Witness ==
    \E p \in Procs :
        /\ pc[p] = "gp_exists"
        /\ trace[p] # <<>> /\ Last(trace[p]) = "add_post"
        /\ post[p].date = Strftime(now[p])
        /\ post[p].date + 4 <= Strftime(clock)

====
